---- MODULE Spec2Model ----
(***************************************************************************)
(* FeedbackAnalyzer (analysis_automation/feedback_analyzer.py) and         *)
(* SurveyDataProcessor (survey_automation/survey_data_processor.py) of     *)
(* ux-research-automation, as state machines.                              *)
(*                                                                         *)
(* Numbers: a polarity is an integer number of hundredths, a percentage    *)
(* an integer number of tenths, an average polarity an integer number of   *)
(* thousandths, a mean or standard deviation an integer number of          *)
(* hundredths; round(x, d) is the rounding to the nearest of them, ties to *)
(* even (Python's and numpy's rule, taken on the exact quotient).  A       *)
(* Python dict is a function whose domain is the set of its keys; None and *)
(* a missing value are the empty sequence where a value may be absent.     *)
(***************************************************************************)
EXTENDS Integers, Sequences, FiniteSets, TLC

VARIABLES
    feedback_data,      \* FeedbackAnalyzer.feedback_data
    analysis_results,   \* FeedbackAnalyzer.analysis_results
    scorer_calls,       \* the texts the last analyze_sentiment gave to TextBlob
    file,               \* what pd.read_csv(file_path) finds
    data,               \* SurveyDataProcessor.data
    processed_data,     \* SurveyDataProcessor.processed_data
    insights,           \* SurveyDataProcessor.insights
    call,               \* the last method called, with its arguments
    ret                 \* what that call returned or raised

vars == <<feedback_data, analysis_results, scorer_calls, file, data, processed_data, insights, call, ret>>

(***************************************************************************)
(* Bounds of the model.                                                    *)
(***************************************************************************)
MaxResponses == 3
MaxReloadLen == 1
MaxRows == 2
MaxMinFrequency == 3

(***************************************************************************)
(* Generic helpers.                                                        *)
(***************************************************************************)
Range(s) == {s[i] : i \in DOMAIN s}

Count(s, x) == Cardinality({i \in DOMAIN s : s[i] = x})

RECURSIVE SumSeq(_)
SumSeq(s) == IF s = <<>> THEN 0 ELSE s[1] + SumSeq(Tail(s))

RECURSIVE ConcatAll(_)
ConcatAll(ss) == IF ss = <<>> THEN <<>> ELSE ss[1] \o ConcatAll(Tail(ss))

RECURSIVE SeqsUpTo(_, _)
SeqsUpTo(S, n) ==
    IF n = 0 THEN {<<>>}
    ELSE LET shorter == SeqsUpTo(S, n - 1)
         IN  shorter \cup {Append(s, x) : s \in {t \in shorter : Len(t) = n - 1}, x \in S}

\* round(num / den, 0) for den > 0: nearest integer, ties to the even one
RoundHalfEven(num, den) ==
    LET q == num \div den
        r == num - q * den
    IN  IF 2 * r < den THEN q
        ELSE IF 2 * r > den THEN q + 1
        ELSE IF q % 2 = 0 THEN q ELSE q + 1

\* Option values: None is <<>>, a value v is <<v>>
None == <<>>
Some(v) == <<v>>

(***************************************************************************)
(* Feedback texts.  A response is missing (na) or a text; a text is a      *)
(* sequence of pieces (words as written, punctuation), and polarity is     *)
(* what TextBlob(text).sentiment.polarity yields for it, in hundredths.    *)
(***************************************************************************)
NA == [na |-> TRUE, text |-> <<>>, polarity |-> 0]
Text(pieces, pol) == [na |-> FALSE, text |-> pieces, polarity |-> pol]

\* str.lower() on the pieces that occur in the corpus
Lower(w) ==
    CASE w = "Slow" -> "slow"
      [] w = "Great" -> "great"
      [] OTHER -> w

Punctuation == {",", "!", "."}

\* re.findall(r'\b\w+\b', str(feedback).lower())
Tokenize(fb) ==
    LET words == SelectSeq(fb.text, LAMBDA p : p \notin Punctuation)
    IN  [i \in DOMAIN words |-> Lower(words[i])]

(***************************************************************************)
(* FeedbackAnalyzer: vocabularies.                                         *)
(***************************************************************************)
ux_keywords ==
    <<"easy", "difficult", "confusing", "intuitive", "simple", "complicated",
      "fast", "slow", "quick", "loading", "responsive", "laggy",
      "design", "interface", "layout", "navigation", "menu", "button",
      "search", "find", "discover", "browse", "filter", "sort",
      "recommendation", "suggest", "personalize", "relevant", "accurate",
      "bug", "error", "crash", "broken", "issue", "problem",
      "love", "hate", "like", "dislike", "amazing", "terrible", "great", "awful">>

\* the theme_categories dict of extract_themes, in its insertion order
theme_categories ==
    << [category |-> "usability",
        keywords |-> <<"easy", "difficult", "confusing", "intuitive", "simple", "complicated">>],
       [category |-> "performance",
        keywords |-> <<"fast", "slow", "quick", "loading", "responsive", "laggy">>],
       [category |-> "design",
        keywords |-> <<"design", "interface", "layout", "navigation", "menu", "button">>],
       [category |-> "functionality",
        keywords |-> <<"search", "find", "discover", "browse", "filter", "sort">>],
       [category |-> "personalization",
        keywords |-> <<"recommendation", "suggest", "personalize", "relevant", "accurate">>],
       [category |-> "technical_issues",
        keywords |-> <<"bug", "error", "crash", "broken", "issue", "problem">>],
       [category |-> "sentiment",
        keywords |-> <<"love", "hate", "like", "dislike", "amazing", "terrible", "great", "awful">>] >>

problem_keywords ==
    <<"slow", "confusing", "difficult", "complicated", "broken", "error",
      "bug", "crash", "loading", "laggy", "terrible", "awful", "hate",
      "problem", "issue", "frustrating", "annoying">>

Sentiments == {"positive", "negative", "neutral"}

\* polarity > 0.1 and polarity < -0.1, in hundredths
PositiveAbove == 10
NegativeBelow == -10

\* most_common(5)
TopN == 5

(***************************************************************************)
(* collections.Counter: the keys in insertion order, and their counts.     *)
(***************************************************************************)
RECURSIVE Distinct(_)
Distinct(s) ==
    IF s = <<>> THEN <<>>
    ELSE LET d == Distinct(SubSeq(s, 1, Len(s) - 1))
             x == s[Len(s)]
         IN  IF x \in Range(d) THEN d ELSE Append(d, x)

Counter(s) == [keys |-> Distinct(s), count |-> [k \in Range(s) |-> Count(s, k)]]

\* sorted(items, key=count, reverse=True): stable, so equal counts keep
\* the Counter's insertion order
RECURSIVE SortedByCount(_, _)
SortedByCount(keys, count) ==
    IF keys = <<>> THEN <<>>
    ELSE LET i == CHOOSE i \in DOMAIN keys :
                      \A j \in DOMAIN keys :
                          \/ count[keys[j]] < count[keys[i]]
                          \/ count[keys[j]] = count[keys[i]] /\ j >= i
             rest == SubSeq(keys, 1, i - 1) \o SubSeq(keys, i + 1, Len(keys))
         IN  <<keys[i]>> \o SortedByCount(rest, count)

\* Counter.most_common(n): heapq.nlargest(n, items, key=count)
MostCommon(counter, n) ==
    LET sorted == SortedByCount(counter.keys, counter.count)
    IN  SubSeq(sorted, 1, IF Len(sorted) < n THEN Len(sorted) ELSE n)

(***************************************************************************)
(* FeedbackAnalyzer.load_feedback                                          *)
(***************************************************************************)
NoFeedback ==
    [none |-> TRUE, feedback |-> <<>>, columns |-> {}, sentiment |-> <<>>,
     sentiment_score |-> <<>>]

\* pd.DataFrame({'feedback': feedback_list})
DataFrame(feedback_list) ==
    [none |-> FALSE, feedback |-> feedback_list, columns |-> {"feedback"},
     sentiment |-> <<>>, sentiment_score |-> <<>>]

LoadFeedback(feedback_list) ==
    /\ feedback_data' = DataFrame(feedback_list)
    /\ call' = [op |-> "load_feedback"]
    /\ ret' = [kind |-> "True"]
    /\ UNCHANGED <<analysis_results, scorer_calls, file, data, processed_data, insights>>

(***************************************************************************)
(* FeedbackAnalyzer.analyze_sentiment                                      *)
(***************************************************************************)
\* (variant: >= 0.1 and <= -0.1)
ClassifyInclusive(fb) ==
    IF fb.na THEN "neutral"
    ELSE IF fb.polarity >= PositiveAbove THEN "positive"
    ELSE IF fb.polarity <= NegativeBelow THEN "negative"
    ELSE "neutral"
Classify(fb) ==
    IF fb.na THEN "neutral"
    ELSE IF fb.polarity > PositiveAbove THEN "positive"
    ELSE IF fb.polarity < NegativeBelow THEN "negative"
    ELSE "neutral"

Score(fb) == IF fb.na THEN 0 ELSE fb.polarity

\* the texts that reach TextBlob(str(feedback)): those past the pd.isna test
\* (variant: every response)
ScoredTextsAll(fbs) == fbs
ScoredTexts(fbs) == SelectSeq(fbs, LAMBDA fb : ~fb.na)

\* pd.Series(sentiments).value_counts().to_dict()
ValueCounts(sentiments) == [c \in Range(sentiments) |-> Count(sentiments, c)]

\* count / total * 100 rounded to n decimals, in tenths; total > 0
\* (variant: rounded to whole percents)
PercentRoundedTo0(count, total) == 10 * RoundHalfEven(count * 100, total)
PercentRounded(count, total) == RoundHalfEven(count * 1000, total)

\* (sentiment_dist / len(sentiments) * 100).round(1).to_dict()
Percentages(dist, total) == [c \in DOMAIN dist |-> PercentRounded(dist[c], total)]

AnalyzeSentiment ==
    /\ call' = [op |-> "analyze_sentiment"]
    /\ UNCHANGED <<file, data, processed_data, insights>>
    /\ IF feedback_data.none
       THEN /\ ret' = [kind |-> "None"]
            /\ scorer_calls' = <<>>
            /\ UNCHANGED <<feedback_data, analysis_results>>
       ELSE LET fbs == feedback_data.feedback
                sentiments == [i \in DOMAIN fbs |-> Classify(fbs[i])]
                sentiment_scores == [i \in DOMAIN fbs |-> Score(fbs[i])]
                sentiment_dist == ValueCounts(sentiments)
            IN  /\ scorer_calls' = ScoredTexts(fbs)
                /\ feedback_data' =
                       [feedback_data EXCEPT
                            !.columns = @ \cup {"sentiment", "sentiment_score"},
                            !.sentiment = sentiments,
                            !.sentiment_score = sentiment_scores]
                /\ IF Len(sentiment_scores) = 0
                   THEN \* sum(sentiment_scores) / len(sentiment_scores)
                        /\ ret' = [kind |-> "raise", exc |-> "ZeroDivisionError"]
                        /\ UNCHANGED analysis_results
                   ELSE LET result ==
                                [distribution |-> sentiment_dist,
                                 percentages |-> Percentages(sentiment_dist, Len(sentiments)),
                                 average_sentiment |->
                                     RoundHalfEven(SumSeq(sentiment_scores) * 10,
                                                   Len(sentiment_scores))]
                        IN  /\ analysis_results' =
                                   [analysis_results EXCEPT !.sentiment_analysis = Some(result)]
                            /\ ret' = [kind |-> "dict", dict |-> result]

(***************************************************************************)
(* FeedbackAnalyzer.extract_themes                                         *)
(***************************************************************************)
\* the ux keywords of one response, in text order
FoundKeywords(fb) ==
    IF fb.na THEN <<>>
    ELSE SelectSeq(Tokenize(fb), LAMBDA w : w \in Range(ux_keywords))

AllKeywords(fbs) == ConcatAll([i \in DOMAIN fbs |-> FoundKeywords(fbs[i])])

\* {k: v for k, v in keyword_counts.items() if v >= min_frequency}
\* (variant: v > min_frequency)
CommonThemesAbove(keyword_counts, min_frequency) ==
    [k \in {k \in DOMAIN keyword_counts : keyword_counts[k] > min_frequency}
        |-> keyword_counts[k]]
CommonThemes(keyword_counts, min_frequency) ==
    [k \in {k \in DOMAIN keyword_counts : keyword_counts[k] >= min_frequency}
        |-> keyword_counts[k]]

DictGet(d, k, default) == IF k \in DOMAIN d THEN d[k] ELSE default

\* sum(common_themes.get(keyword, 0) for keyword in keywords)
\* (variant: the number of the category's common keywords)
CategoryCountOfKeys(common_themes, keywords) ==
    Cardinality({i \in DOMAIN keywords : keywords[i] \in DOMAIN common_themes})
CategoryCount(common_themes, keywords) ==
    SumSeq([i \in DOMAIN keywords |-> DictGet(common_themes, keywords[i], 0)])

CategorizedThemes(common_themes) ==
    LET total == [i \in DOMAIN theme_categories |->
                      CategoryCount(common_themes, theme_categories[i].keywords)]
        kept == {i \in DOMAIN theme_categories : total[i] > 0}
    IN  [c \in {theme_categories[i].category : i \in kept} |->
            total[CHOOSE i \in kept : theme_categories[i].category = c]]

ExtractThemes(min_frequency) ==
    /\ call' = [op |-> "extract_themes", min_frequency |-> min_frequency]
    /\ UNCHANGED <<feedback_data, scorer_calls, file, data, processed_data, insights>>
    /\ IF feedback_data.none
       THEN /\ ret' = [kind |-> "None"]
            /\ UNCHANGED analysis_results
       ELSE LET all_keywords == AllKeywords(feedback_data.feedback)
                keyword_counts == Counter(all_keywords).count
                common_themes == CommonThemes(keyword_counts, min_frequency)
                result ==
                    [common_keywords |-> common_themes,
                     theme_categories |-> CategorizedThemes(common_themes),
                     total_keywords_found |-> Len(all_keywords)]
            IN  /\ analysis_results' =
                       [analysis_results EXCEPT !.theme_analysis = Some(result)]
                /\ ret' = [kind |-> "dict", dict |-> result]

(***************************************************************************)
(* FeedbackAnalyzer.identify_priority_issues                               *)
(***************************************************************************)
\* self.feedback_data[self.feedback_data['sentiment'] == 'negative']['feedback']
NegativeFeedback(fd) ==
    LET neg == {i \in DOMAIN fd.feedback : fd.sentiment[i] = "negative"}
        F[i \in 0..Len(fd.feedback)] ==
            IF i = 0 THEN <<>>
            ELSE IF i \in neg THEN Append(F[i - 1], fd.feedback[i]) ELSE F[i - 1]
    IN  F[Len(fd.feedback)]

\* the words of the negative responses, in response order then text order
\* (variant: the words of the first negative response only)
NegativeKeywordsOfFirst(negative_feedback) ==
    IF negative_feedback = <<>> \/ negative_feedback[1].na THEN <<>>
    ELSE Tokenize(negative_feedback[1])
NegativeKeywords(negative_feedback) ==
    ConcatAll([i \in DOMAIN negative_feedback |->
                   IF negative_feedback[i].na THEN <<>> ELSE Tokenize(negative_feedback[i])])

\* Counter([kw for kw in negative_keywords if kw in problem_keywords])
NegativeIssues(negative_keywords) ==
    Counter(SelectSeq(negative_keywords, LAMBDA kw : kw \in Range(problem_keywords)))

\* round((count / len(self.feedback_data)) * 100, 1)
\* (variant: over the number of negative responses)
IssuePercentageOfNegatives(count, fd) ==
    PercentRounded(count, Len(NegativeFeedback(fd)))
IssuePercentage(count, fd) == PercentRounded(count, Len(fd.feedback))

\* len(negative_feedback) == 0
\* (variant: no problem keyword among the negative responses)
NoNegativeFeedbackIfNoIssue(fd) ==
    NegativeIssues(NegativeKeywords(NegativeFeedback(fd))).keys = <<>>
NoNegativeFeedback(fd) == Len(NegativeFeedback(fd)) = 0

\* negative_issues.most_common(5)
\* (variant: the keys taken in the order of problem_keywords)
RankedIssuesByVocabulary(negative_issues) ==
    MostCommon([keys |-> SelectSeq(problem_keywords,
                                   LAMBDA kw : kw \in Range(negative_issues.keys)),
                count |-> negative_issues.count], TopN)
RankedIssues(negative_issues) == MostCommon(negative_issues, TopN)

PriorityIssues(fd) ==
    LET negative_issues == NegativeIssues(NegativeKeywords(NegativeFeedback(fd)))
        ranked == RankedIssues(negative_issues)
    IN  [i \in DOMAIN ranked |->
            [issue |-> ranked[i],
             frequency |-> negative_issues.count[ranked[i]],
             percentage |-> IssuePercentage(negative_issues.count[ranked[i]], fd)]]

IdentifyPriorityIssues ==
    /\ call' = [op |-> "identify_priority_issues"]
    /\ UNCHANGED <<feedback_data, scorer_calls, file, data, processed_data, insights>>
    /\ IF analysis_results.sentiment_analysis = None
       THEN /\ ret' = [kind |-> "None"]
            /\ UNCHANGED analysis_results
       ELSE IF "sentiment" \notin feedback_data.columns
       THEN \* self.feedback_data['sentiment'] on a frame without the column
            /\ ret' = [kind |-> "raise", exc |-> "KeyError"]
            /\ UNCHANGED analysis_results
       ELSE IF NoNegativeFeedback(feedback_data)
       THEN /\ ret' = [kind |-> "dict", dict |-> [message |-> "No negative feedback found"]]
            /\ UNCHANGED analysis_results
       ELSE LET priority_issues == PriorityIssues(feedback_data)
            IN  /\ analysis_results' =
                       [analysis_results EXCEPT !.priority_issues = Some(priority_issues)]
                /\ ret' = [kind |-> "list", list |-> priority_issues]

(***************************************************************************)
(* FeedbackAnalyzer.generate_insights_report                               *)
(***************************************************************************)
\* pos_pct > 60, neg_pct > 30, in tenths
StrongPositiveAbove == 600
HighNegativeAbove == 300

\* if pos_pct > 60: ... elif neg_pct > 30: ...
\* (variant: two separate if statements)
SentimentFindingsIndependent(pos_pct, neg_pct) ==
    (IF pos_pct > StrongPositiveAbove
     THEN <<[finding |-> "strong_positive_sentiment", pct |-> pos_pct]>> ELSE <<>>)
    \o (IF neg_pct > HighNegativeAbove
        THEN <<[finding |-> "high_negative_sentiment", pct |-> neg_pct]>> ELSE <<>>)
SentimentFindings(pos_pct, neg_pct) ==
    IF pos_pct > StrongPositiveAbove
    THEN <<[finding |-> "strong_positive_sentiment", pct |-> pos_pct]>>
    ELSE IF neg_pct > HighNegativeAbove
    THEN <<[finding |-> "high_negative_sentiment", pct |-> neg_pct]>>
    ELSE <<>>

\* max(themes.items(), key=lambda x: x[1]) if themes else None: the first
\* maximal entry in the dict's order, which is the order of theme_categories
\* (variant: the last of the entries with the maximum)
TopThemeLast(themes) ==
    LET order == SelectSeq([i \in DOMAIN theme_categories |-> theme_categories[i].category],
                           LAMBDA c : c \in DOMAIN themes)
        i == CHOOSE i \in DOMAIN order :
                 \A j \in DOMAIN order :
                     \/ themes[order[j]] < themes[order[i]]
                     \/ themes[order[j]] = themes[order[i]] /\ j <= i
    IN  IF order = <<>> THEN None ELSE Some([theme |-> order[i], mentions |-> themes[order[i]]])
TopTheme(themes) ==
    LET order == SelectSeq([i \in DOMAIN theme_categories |-> theme_categories[i].category],
                           LAMBDA c : c \in DOMAIN themes)
        i == CHOOSE i \in DOMAIN order :
                 \A j \in DOMAIN order :
                     \/ themes[order[j]] < themes[order[i]]
                     \/ themes[order[j]] = themes[order[i]] /\ j >= i
    IN  IF order = <<>> THEN None ELSE Some([theme |-> order[i], mentions |-> themes[order[i]]])

ThemeFindings(themes) ==
    LET top_theme == TopTheme(themes)
    IN  IF top_theme = None THEN <<>>
        ELSE <<[finding |-> "most_discussed_theme", theme |-> top_theme[1].theme,
                mentions |-> top_theme[1].mentions]>>

\* (variant: a keyword of no bucket gets the first recommendation)
RecommendationForAny(issue_type) ==
    IF issue_type \in {"slow", "loading", "laggy"}
    THEN <<"Investigate performance optimization opportunities">>
    ELSE IF issue_type \in {"confusing", "difficult", "complicated"}
    THEN <<"Consider UX/UI simplification and user testing">>
    ELSE IF issue_type \in {"broken", "error", "bug", "crash"}
    THEN <<"Prioritize bug fixes and technical stability improvements">>
    ELSE <<"Investigate performance optimization opportunities">>
Recommendation(issue_type) ==
    IF issue_type \in {"slow", "loading", "laggy"}
    THEN <<"Investigate performance optimization opportunities">>
    ELSE IF issue_type \in {"confusing", "difficult", "complicated"}
    THEN <<"Consider UX/UI simplification and user testing">>
    ELSE IF issue_type \in {"broken", "error", "bug", "crash"}
    THEN <<"Prioritize bug fixes and technical stability improvements">>
    ELSE <<>>

Report(fd, results) ==
    LET sentiment == results.sentiment_analysis
        themes == results.theme_analysis
        issues == results.priority_issues
        has_top == issues # None /\ issues[1] # <<>>
    IN  [total_feedback |-> Len(fd.feedback),
         summary |-> IF sentiment = None THEN <<>>
                     ELSE [sentiment |-> sentiment[1].percentages],
         key_insights |->
             (IF sentiment = None THEN <<>>
              ELSE SentimentFindings(DictGet(sentiment[1].percentages, "positive", 0),
                                     DictGet(sentiment[1].percentages, "negative", 0)))
             \o (IF themes = None THEN <<>> ELSE ThemeFindings(themes[1].theme_categories))
             \o (IF has_top
                 THEN <<[finding |-> "top_user_complaint", issue |-> issues[1][1].issue,
                         percentage |-> issues[1][1].percentage]>>
                 ELSE <<>>),
         recommendations |->
             IF has_top THEN Recommendation(issues[1][1].issue) ELSE <<>>]

NoResults == [sentiment_analysis |-> None, theme_analysis |-> None, priority_issues |-> None]

GenerateInsightsReport ==
    /\ call' = [op |-> "generate_insights_report"]
    /\ UNCHANGED <<feedback_data, analysis_results, scorer_calls, file, data, processed_data, insights>>
    /\ IF analysis_results = NoResults
       THEN ret' = [kind |-> "None"]
       ELSE ret' = [kind |-> "dict", dict |-> Report(feedback_data, analysis_results)]

(***************************************************************************)
(* SurveyDataProcessor: tables.  A table has the columns user_type and     *)
(* ux_rating; a cell is missing (nan), a number (num) or other text (str). *)
(***************************************************************************)
NaN == [k |-> "nan", v |-> 0]
Num(n) == [k |-> "num", v |-> n]
Str(n) == [k |-> "str", v |-> n]

IsNa(cell) == cell.k = "nan"

Columns == <<"user_type", "ux_rating">>

\* 'rating' in col.lower()
IsRatingColumn(col) == col \in {"ux_rating"}

RatingColumns(table) == SelectSeq(table.columns, IsRatingColumn)

\* df[col]
Column(table, col) == [i \in DOMAIN table.rows |-> table.rows[i][col]]

\* the non-missing values of a numeric column
Values(column) ==
    LET present == SelectSeq(column, LAMBDA c : ~IsNa(c))
    IN  [i \in DOMAIN present |-> present[i].v]

(***************************************************************************)
(* SurveyDataProcessor.load_data and clean_data                            *)
(***************************************************************************)
NoInsights == [satisfaction_metrics |-> None, segment_analysis |-> None]

LoadData ==
    /\ call' = [op |-> "load_data"]
    /\ UNCHANGED <<feedback_data, analysis_results, scorer_calls, file, processed_data, insights>>
    /\ IF file = None
       THEN \* pd.read_csv raises, the handler returns False
            /\ ret' = [kind |-> "False"]
            /\ UNCHANGED data
       ELSE /\ data' = file
            /\ ret' = [kind |-> "True"]

\* df.dropna(how='all')
DropNaAll(table) ==
    [table EXCEPT !.rows =
        SelectSeq(table.rows,
                  LAMBDA row : \E i \in DOMAIN table.columns : ~IsNa(row[table.columns[i]]))]

\* pd.to_numeric(x, errors='coerce')
ToNumeric(cell) == IF cell.k = "num" THEN cell ELSE NaN

CoerceRatings(table) ==
    [table EXCEPT !.rows =
        [i \in DOMAIN table.rows |->
            [col \in Range(table.columns) |->
                IF IsRatingColumn(col) THEN ToNumeric(table.rows[i][col])
                ELSE table.rows[i][col]]]]

CleanData ==
    /\ call' = [op |-> "clean_data"]
    /\ UNCHANGED <<feedback_data, analysis_results, scorer_calls, file, insights>>
    /\ IF data = None
       THEN /\ ret' = [kind |-> "False"]
            /\ UNCHANGED <<data, processed_data>>
       ELSE LET cleaned == CoerceRatings(DropNaAll(data[1]))
            IN  /\ data' = Some(cleaned)
                /\ processed_data' = Some(cleaned)
                /\ ret' = [kind |-> "True"]

(***************************************************************************)
(* SurveyDataProcessor.calculate_satisfaction_metrics                      *)
(***************************************************************************)
Max(S) == CHOOSE x \in S : \A y \in S : y <= x

\* floor of the square root of n, for lo * lo <= n < hi * hi
RECURSIVE ISqrtBetween(_, _, _)
ISqrtBetween(n, lo, hi) ==
    IF hi - lo <= 1 THEN lo
    ELSE LET mid == (lo + hi) \div 2
         IN  IF mid * mid <= n THEN ISqrtBetween(n, mid, hi) ELSE ISqrtBetween(n, lo, mid)

ISqrt(n) == ISqrtBetween(n, 0, 2^15)

\* sorted values
RECURSIVE Sorted(_)
Sorted(s) ==
    IF s = <<>> THEN <<>>
    ELSE LET i == CHOOSE i \in DOMAIN s : \A j \in DOMAIN s : s[i] <= s[j]
         IN  <<s[i]>> \o Sorted(SubSeq(s, 1, i - 1) \o SubSeq(s, i + 1, Len(s)))

\* round(Series.mean(), 2), in hundredths; NaN (None) without values
\* (variant: 0 without values)
MeanOrZero(values) ==
    IF values = <<>> THEN Some(0)
    ELSE Some(RoundHalfEven(SumSeq(values) * 100, Len(values)))
Mean(values) ==
    IF values = <<>> THEN None
    ELSE Some(RoundHalfEven(SumSeq(values) * 100, Len(values)))

\* Series.median(), in hundredths; NaN (None) without values
Median(values) ==
    LET s == Sorted(values)
        n == Len(s)
    IN  IF n = 0 THEN None
        ELSE IF n % 2 = 1 THEN Some(100 * s[(n + 1) \div 2])
        ELSE Some(50 * (s[n \div 2] + s[n \div 2 + 1]))

\* round(Series.std(), 2) with ddof=1, in hundredths; NaN (None) below two values
Std(values) ==
    LET n == Len(values)
        a == n * SumSeq([i \in DOMAIN values |-> values[i] * values[i]])
                 - SumSeq(values) * SumSeq(values)
        b == n * (n - 1)
    IN  IF n < 2 THEN None
        ELSE Some((ISqrt((40000 * a) \div b) + 1) \div 2)

\* Series.max() <= limit: false for a column without values
MaxAtMost(column, limit) ==
    /\ Values(column) # <<>>
    /\ Max(Range(Values(column))) <= limit

\* (column >= n).sum() and (column <= n).sum(): NaN compares False
CountAtLeast(column, n) ==
    Cardinality({i \in DOMAIN column : ~IsNa(column[i]) /\ column[i].v >= n})

CountAtMost(column, n) ==
    Cardinality({i \in DOMAIN column : ~IsNa(column[i]) /\ column[i].v <= n})

FivePointScale == 5
TenPointScale == 10
SatisfiedFrom == 4
PromoterFrom == 9
DetractorUpTo == 6

\* round((satisfied.sum() / len(satisfied)) * 100, 1)
\* (variant: over the number of non-missing values)
SatisfactionRateOfPresent(column) ==
    PercentRounded(CountAtLeast(column, SatisfiedFrom), Len(Values(column)))
SatisfactionRate(column) ==
    PercentRounded(CountAtLeast(column, SatisfiedFrom), Len(column))

\* round(((promoters.sum() - detractors.sum()) / len(column)) * 100, 1)
NpsScore(column) ==
    PercentRounded(CountAtLeast(column, PromoterFrom)
                   - CountAtMost(column, DetractorUpTo), Len(column))

\* self.processed_data[col].max() <= 5
\* (variant: <= 10)
HasSatisfactionRateUpToTen(column) == MaxAtMost(column, TenPointScale)
HasSatisfactionRate(column) == MaxAtMost(column, FivePointScale)

\* self.processed_data[col].max() <= 10
\* (variant: an elif of the satisfaction_rate test)
HasNpsScoreElse(column) ==
    ~MaxAtMost(column, FivePointScale) /\ MaxAtMost(column, TenPointScale)
HasNpsScore(column) == MaxAtMost(column, TenPointScale)

Merge(f, g) == [k \in DOMAIN f \cup DOMAIN g |-> IF k \in DOMAIN g THEN g[k] ELSE f[k]]

ColumnMetrics(column) ==
    LET base == [mean |-> Mean(Values(column)),
                 median |-> Median(Values(column)),
                 count |-> Len(Values(column)),
                 std |-> Std(Values(column))]
        rate == IF HasSatisfactionRate(column)
                THEN [k \in {"satisfaction_rate"} |-> SatisfactionRate(column)] ELSE <<>>
        nps == IF HasNpsScore(column)
               THEN [k \in {"nps_score"} |-> NpsScore(column)] ELSE <<>>
    IN  Merge(Merge(base, rate), nps)

SatisfactionMetrics(table) ==
    [col \in Range(RatingColumns(table)) |-> ColumnMetrics(Column(table, col))]

CalculateSatisfactionMetrics ==
    /\ call' = [op |-> "calculate_satisfaction_metrics"]
    /\ UNCHANGED <<feedback_data, analysis_results, scorer_calls, file, data, processed_data>>
    /\ IF processed_data = None
       THEN /\ ret' = [kind |-> "None"]
            /\ UNCHANGED insights
       ELSE LET metrics == SatisfactionMetrics(processed_data[1])
            IN  /\ insights' = [insights EXCEPT !.satisfaction_metrics = Some(metrics)]
                /\ ret' = [kind |-> "dict", dict |-> metrics]

(***************************************************************************)
(* SurveyDataProcessor.analyze_by_segments                                 *)
(***************************************************************************)
\* the segment_column arguments; "plan" is no column of the table
SegmentColumns == {"user_type", "plan"}

\* df[segment_column].unique(): the distinct cells, NaN among them
Unique(column) == Range(column)

\* df[df[segment_column] == segment]: NaN equals no cell
SegmentData(table, segment_column, segment) ==
    [table EXCEPT !.rows =
        SelectSeq(table.rows,
                  LAMBDA row : ~IsNa(segment) /\ row[segment_column] = segment)]

\* round(((segment_data[c] >= 4).sum() / len(segment_data)) * 100, 1)
\* (variant: over the number of non-missing values)
SegmentSatisfactionRateOfPresent(column) ==
    PercentRounded(CountAtLeast(column, SatisfiedFrom), Len(Values(column)))
SegmentSatisfactionRate(column) ==
    PercentRounded(CountAtLeast(column, SatisfiedFrom), Len(column))

\* the entry of one rating column of one segment; 'satisfaction_rate' is
\* always a key and holds None unless max() <= 5
SegmentMetrics(column) ==
    [mean |-> Mean(Values(column)),
     count |-> Len(Values(column)),
     satisfaction_rate |->
         IF HasSatisfactionRate(column) THEN Some(SegmentSatisfactionRate(column))
         ELSE None]

SegmentAnalysis(table, segment_column) ==
    [segment \in Unique(Column(table, segment_column)) |->
        LET segment_data == SegmentData(table, segment_column, segment)
        IN  [col \in Range(RatingColumns(table)) |->
                SegmentMetrics(Column(segment_data, col))]]

\* (variant: a missing column stores an empty analysis)
AnalyzeBySegmentsStoring ==
    \E segment_column \in SegmentColumns :
        /\ call' = [op |-> "analyze_by_segments", segment_column |-> segment_column]
        /\ UNCHANGED <<feedback_data, analysis_results, scorer_calls, file, data, processed_data>>
        /\ IF processed_data = None
           THEN /\ ret' = [kind |-> "raise", exc |-> "AttributeError"]
                /\ UNCHANGED insights
           ELSE IF segment_column \notin Range(processed_data[1].columns)
           THEN /\ ret' = [kind |-> "None"]
                /\ insights' = [insights EXCEPT !.segment_analysis = Some(<<>>)]
           ELSE LET segment_analysis == SegmentAnalysis(processed_data[1], segment_column)
                IN  /\ insights' = [insights EXCEPT !.segment_analysis = Some(segment_analysis)]
                    /\ ret' = [kind |-> "dict", dict |-> segment_analysis]
AnalyzeBySegments ==
    \E segment_column \in SegmentColumns :
        /\ call' = [op |-> "analyze_by_segments", segment_column |-> segment_column]
        /\ UNCHANGED <<feedback_data, analysis_results, scorer_calls, file, data, processed_data>>
        /\ IF processed_data = None
           THEN \* None has no attribute 'columns'
                /\ ret' = [kind |-> "raise", exc |-> "AttributeError"]
                /\ UNCHANGED insights
           ELSE IF segment_column \notin Range(processed_data[1].columns)
           THEN /\ ret' = [kind |-> "None"]
                /\ UNCHANGED insights
           ELSE LET segment_analysis == SegmentAnalysis(processed_data[1], segment_column)
                IN  /\ insights' = [insights EXCEPT !.segment_analysis = Some(segment_analysis)]
                    /\ ret' = [kind |-> "dict", dict |-> segment_analysis]

(***************************************************************************)
(* SurveyDataProcessor.generate_executive_summary                          *)
(***************************************************************************)
ExcellentFrom == 800
GoodFrom == 600
LowBelow == 700

\* the satisfaction metrics in insights, {} without the key
StoredMetrics(ins) ==
    IF ins.satisfaction_metrics = None THEN <<>> ELSE ins.satisfaction_metrics[1]

Grade(rate) ==
    IF rate >= ExcellentFrom THEN "Excellent"
    ELSE IF rate >= GoodFrom THEN "Good"
    ELSE "Needs Improvement"

\* one finding per rating column that has a satisfaction_rate
KeyFindings(table, metrics) ==
    LET rated == SelectSeq(RatingColumns(table),
                           LAMBDA col : /\ col \in DOMAIN metrics
                                        /\ "satisfaction_rate" \in DOMAIN metrics[col])
    IN  [i \in DOMAIN rated |->
            [feature |-> rated[i],
             rate |-> metrics[rated[i]].satisfaction_rate,
             grade |-> Grade(metrics[rated[i]].satisfaction_rate)]]

LowSatisfactionFeatures(table, metrics) ==
    SelectSeq(RatingColumns(table),
              LAMBDA col : /\ col \in DOMAIN metrics
                           /\ "satisfaction_rate" \in DOMAIN metrics[col]
                           /\ metrics[col].satisfaction_rate < LowBelow)

ExecutiveSummary(table, ins) ==
    LET low == LowSatisfactionFeatures(table, StoredMetrics(ins))
    IN  [total_responses |-> Len(table.rows),
         key_findings |-> KeyFindings(table, StoredMetrics(ins)),
         recommendations |-> IF low = <<>> THEN <<>> ELSE <<low>>]

GenerateExecutiveSummary ==
    /\ call' = [op |-> "generate_executive_summary"]
    /\ UNCHANGED <<feedback_data, analysis_results, scorer_calls, file, data, processed_data, insights>>
    /\ IF insights = NoInsights
       THEN /\ ret' = [kind |-> "None"]
       ELSE IF processed_data = None
       THEN \* len(None)
            /\ ret' = [kind |-> "raise", exc |-> "TypeError"]
       ELSE /\ ret' = [kind |-> "dict", dict |-> ExecutiveSummary(processed_data[1], insights)]

(***************************************************************************)
(* The feedback lists given to load_feedback.                              *)
(***************************************************************************)
SlowSlowFast == Text(<<"Slow", ",", "slow", "fast">>, -30)
ManyIssues == Text(<<"bug", "slow", "crash", "error", "broken", "hate">>, -60)
DislikeMenu == Text(<<"dislike", "menu">>, -40)
GreatEasy == Text(<<"Great", "easy", "layout", ",", "not", "slow", "!">>, 80)

Corpus == {NA, SlowSlowFast, ManyIssues, DislikeMenu, GreatEasy}

ReloadCorpus == {NA, ManyIssues, GreatEasy}

\* texts at and next to the polarity thresholds
HateLoading == Text(<<"hate", "loading">>, -11)
ConfusingBug == Text(<<"confusing", ",", "confusing", "bug">>, -50)
Terrible == Text(<<"terrible">>, -10)
Fine == Text(<<"Great">>, 10)
Love == Text(<<"love">>, 11)

BoundaryCorpus == {HateLoading, ConfusingBug, Terrible, Fine, Love}

MinFrequencies == 1..MaxMinFrequency

(***************************************************************************)
(* The survey files given to SurveyDataProcessor.                          *)
(***************************************************************************)
UserTypes == {NaN, Str(1), Str(2)}
Ratings == {NaN, Str(0), Num(3), Num(5), Num(7), Num(10), Num(11)}

Rows == [user_type : UserTypes, ux_rating : Ratings]

Tables == {[columns |-> Columns, rows |-> rows] : rows \in SeqsUpTo(Rows, MaxRows)}

Files == {None} \cup {Some(t) : t \in Tables}

(***************************************************************************)
(* Specifications.                                                         *)
(***************************************************************************)
InitAnalyzer ==
    /\ feedback_data = NoFeedback
    /\ analysis_results = NoResults
    /\ scorer_calls = <<>>

InitProcessor ==
    /\ data = None
    /\ processed_data = None
    /\ insights = NoInsights

Init ==
    /\ InitAnalyzer
    /\ InitProcessor
    /\ file = None
    /\ call = [op |-> "__init__"]
    /\ ret = [kind |-> "None"]

\* one analyzer, loaded once
Load ==
    /\ feedback_data.none
    /\ \E feedback_list \in SeqsUpTo(Corpus, MaxResponses) : LoadFeedback(feedback_list)

\* one analyzer, loaded any number of times
Reload == \E feedback_list \in SeqsUpTo(ReloadCorpus, MaxReloadLen) : LoadFeedback(feedback_list)

Themes == \E min_frequency \in MinFrequencies : ExtractThemes(min_frequency)

Next ==
    \/ Load
    \/ AnalyzeSentiment
    \/ Themes
    \/ IdentifyPriorityIssues
    \/ GenerateInsightsReport

Spec == Init /\ [][Next]_vars

NextReload ==
    \/ Reload
    \/ AnalyzeSentiment
    \/ Themes
    \/ IdentifyPriorityIssues
    \/ GenerateInsightsReport

SpecReload == Init /\ [][NextReload]_vars

\* one analyzer, loaded once with texts around the polarity thresholds
LoadBoundary ==
    /\ feedback_data.none
    /\ \E feedback_list \in SeqsUpTo(BoundaryCorpus, MaxResponses) : LoadFeedback(feedback_list)

NextBoundary ==
    \/ LoadBoundary
    \/ AnalyzeSentiment
    \/ Themes
    \/ IdentifyPriorityIssues
    \/ GenerateInsightsReport

SpecBoundary == Init /\ [][NextBoundary]_vars

\* one processor on one survey file
InitSurvey ==
    /\ InitAnalyzer
    /\ InitProcessor
    /\ file \in Files
    /\ call = [op |-> "__init__"]
    /\ ret = [kind |-> "None"]

NextSurvey ==
    \/ LoadData
    \/ CleanData
    \/ CalculateSatisfactionMetrics
    \/ AnalyzeBySegments
    \/ GenerateExecutiveSummary

SpecSurvey == InitSurvey /\ [][NextSurvey]_vars

(***************************************************************************)
(* Properties of FeedbackAnalyzer.                                         *)
(***************************************************************************)
\* where the word w occurs in the responses numbered by rows: <<response, token>>
Positions(fbs, rows, w) ==
    UNION {{<<i, j>> : j \in {j \in DOMAIN Tokenize(fbs[i]) : Tokenize(fbs[i])[j] = w}} :
              i \in {i \in rows : ~fbs[i].na}}

Occurrences(fbs, w) == Cardinality(Positions(fbs, DOMAIN fbs, w))

Returned(op, kind) == call.op = op /\ ret.kind = kind

\* the sum of f[k] over the keys k of a dict f
RECURSIVE SumDict(_)
SumDict(f) ==
    IF DOMAIN f = {} THEN 0
    ELSE LET k == CHOOSE k \in DOMAIN f : TRUE
         IN  f[k] + SumDict([x \in DOMAIN f \ {k} |-> f[x]])

\* the raw and the thresholded total of category number i
RawTotal(fbs, i) ==
    SumSeq([n \in DOMAIN theme_categories[i].keywords |->
                Occurrences(fbs, theme_categories[i].keywords[n])])

CommonTotal(fbs, i, min_frequency) ==
    SumSeq([n \in DOMAIN theme_categories[i].keywords |->
                LET occ == Occurrences(fbs, theme_categories[i].keywords[n])
                IN  IF occ >= min_frequency THEN occ ELSE 0])

\* C1 as stated: extract_themes returns as theme_categories the raw
\* (pre-threshold) occurrence total of every category that has one, whatever
\* min_frequency is, so theme_categories is the same for all thresholds.
C1_CategoryTotalsIgnoreThreshold ==
    Returned("extract_themes", "dict") =>
        \A i \in DOMAIN theme_categories :
            LET c == theme_categories[i].category
                raw == RawTotal(feedback_data.feedback, i)
            IN  IF raw > 0
                THEN c \in DOMAIN ret.dict.theme_categories
                     /\ ret.dict.theme_categories[c] = raw
                ELSE c \notin DOMAIN ret.dict.theme_categories

\* C1 amended: extract_themes returns as theme_categories, for every
\* category, the sum of the occurrence counts of its keywords that occur at
\* least min_frequency times, and omits the categories where that sum is 0.
C1_CategoryTotalsThresholded ==
    Returned("extract_themes", "dict") =>
        \A i \in DOMAIN theme_categories :
            LET c == theme_categories[i].category
                total == CommonTotal(feedback_data.feedback, i, call.min_frequency)
            IN  IF total > 0
                THEN c \in DOMAIN ret.dict.theme_categories
                     /\ ret.dict.theme_categories[c] = total
                ELSE c \notin DOMAIN ret.dict.theme_categories

\* 'slow' twice and 'fast' once with min_frequency 2: performance is 2, not 3
C1_Witness ==
    /\ Returned("extract_themes", "dict")
    /\ call.min_frequency = 2
    /\ Occurrences(feedback_data.feedback, "slow") = 2
    /\ Occurrences(feedback_data.feedback, "fast") = 1
    /\ ret.dict.common_keywords = [k \in {"slow"} |-> 2]
    /\ ret.dict.theme_categories = [k \in {"performance"} |-> 2]

HasFinding(report, finding) ==
    \E i \in DOMAIN report.key_insights : report.key_insights[i].finding = finding

StoredPercentage(category) ==
    DictGet(analysis_results.sentiment_analysis[1].percentages, category, 0)

\* C2 as stated: a report over a sentiment analysis has the strong positive
\* finding exactly when positive > 60% and the high negative finding exactly
\* when negative > 30%.
C2_SentimentRulesIndependent ==
    (Returned("generate_insights_report", "dict") /\ analysis_results.sentiment_analysis # None)
        => /\ HasFinding(ret.dict, "strong_positive_sentiment")
                  <=> StoredPercentage("positive") > 600
           /\ HasFinding(ret.dict, "high_negative_sentiment")
                  <=> StoredPercentage("negative") > 300

\* C2 amended: the strong positive finding is in the report exactly when
\* positive > 60%, and the high negative finding exactly when negative > 30%
\* and positive <= 60%; the report never has both.
C2_SentimentRulesExclusive ==
    (Returned("generate_insights_report", "dict") /\ analysis_results.sentiment_analysis # None)
        => /\ HasFinding(ret.dict, "strong_positive_sentiment")
                  <=> StoredPercentage("positive") > 600
           /\ HasFinding(ret.dict, "high_negative_sentiment")
                  <=> (StoredPercentage("negative") > 300 /\ StoredPercentage("positive") <= 600)

\* positive > 60% and negative > 30%: only the strong positive finding
C2_Witness ==
    /\ Returned("generate_insights_report", "dict")
    /\ analysis_results.sentiment_analysis # None
    /\ StoredPercentage("positive") > 600
    /\ StoredPercentage("negative") > 300
    /\ HasFinding(ret.dict, "strong_positive_sentiment")
    /\ ~HasFinding(ret.dict, "high_negative_sentiment")

\* the rows that analyze_sentiment classified negative
NegativeRows == {i \in DOMAIN feedback_data.feedback : feedback_data.sentiment[i] = "negative"}

NegativeOccurrences(w) == Cardinality(Positions(feedback_data.feedback, NegativeRows, w))

\* the problem keywords that occur in negative responses
OccurringIssues == {w \in Range(problem_keywords) : NegativeOccurrences(w) > 0}

\* w1 occurs in the negative responses before w2 does
OccursFirst(w1, w2) ==
    \E p \in Positions(feedback_data.feedback, NegativeRows, w1) :
        \A q \in Positions(feedback_data.feedback, NegativeRows, w2) :
            p[1] < q[1] \/ (p[1] = q[1] /\ p[2] < q[2])

VocabularyIndex(w) == CHOOSE i \in DOMAIN problem_keywords : problem_keywords[i] = w

Min(a, b) == IF a < b THEN a ELSE b

\* the list is the first Min(5, number of occurring issues) of the occurring
\* issues, each once with its count, ordered by count and then by Before
RankedBy(list, Before(_, _)) ==
    LET Ahead(w1, w2) ==
            \/ NegativeOccurrences(w1) > NegativeOccurrences(w2)
            \/ NegativeOccurrences(w1) = NegativeOccurrences(w2) /\ Before(w1, w2)
    IN  /\ Len(list) = Min(TopN, Cardinality(OccurringIssues))
        /\ \A i \in DOMAIN list :
               /\ list[i].issue \in OccurringIssues
               /\ list[i].frequency = NegativeOccurrences(list[i].issue)
        /\ \A i, j \in DOMAIN list : i < j => Ahead(list[i].issue, list[j].issue)
        /\ \A i \in DOMAIN list :
               \A w \in OccurringIssues \ {list[k].issue : k \in DOMAIN list} :
                   Ahead(list[i].issue, w)

\* C3 as stated: the returned list holds the (at most 5) most frequent
\* problem keywords of the negative responses in descending frequency, equal
\* frequencies in the order of the problem-keyword vocabulary.
C3_TiesInVocabularyOrder ==
    Returned("identify_priority_issues", "list") =>
        RankedBy(ret.list, LAMBDA w1, w2 : VocabularyIndex(w1) < VocabularyIndex(w2))

\* C3 amended: the returned list holds the (at most 5) most frequent problem
\* keywords of the negative responses in descending frequency, equal
\* frequencies in the order of their first occurrence in the negative
\* responses (response order, then position in the text).
C3_TiesInFirstOccurrenceOrder ==
    Returned("identify_priority_issues", "list") =>
        RankedBy(ret.list, OccursFirst)

\* six issues of equal frequency: five are returned, 'bug' ahead of 'slow'
\* because it is written first, although 'slow' is first in the vocabulary
C3_Witness ==
    /\ Returned("identify_priority_issues", "list")
    /\ Cardinality(OccurringIssues) > TopN
    /\ Len(ret.list) = TopN
    /\ ret.list[1].issue = "bug"
    /\ ret.list[2].issue = "slow"
    /\ ret.list[1].frequency = ret.list[2].frequency
    /\ VocabularyIndex("slow") < VocabularyIndex("bug")

\* C5 as stated: identify_priority_issues called when analyze_sentiment has
\* not been run on the loaded feedback (the frame has no sentiment column)
\* returns None and raises nothing.
C5_MissingSentimentReturnsNone ==
    (call.op = "identify_priority_issues" /\ "sentiment" \notin feedback_data.columns)
        => ret.kind = "None"

\* C6: the percentages analyze_sentiment returns sum to 100 within 0.1.
C6_PercentagesSumTo100 ==
    Returned("analyze_sentiment", "dict") =>
        /\ SumDict(ret.dict.percentages) >= 1000 - 1
        /\ SumDict(ret.dict.percentages) <= 1000 + 1

\* three categories of one response each: 33.3 + 33.3 + 33.3 = 99.9
C6_Witness ==
    /\ Returned("analyze_sentiment", "dict")
    /\ DOMAIN ret.dict.percentages = Sentiments
    /\ SumDict(ret.dict.percentages) = 999

\* C9: every entry identify_priority_issues returns has as percentage its
\* frequency over the number of loaded responses, times 100, to 1 decimal.
C9_PercentageOfAllResponses ==
    Returned("identify_priority_issues", "list") =>
        \A i \in DOMAIN ret.list :
            /\ ret.list[i].frequency = NegativeOccurrences(ret.list[i].issue)
            /\ ret.list[i].percentage =
                   RoundHalfEven(ret.list[i].frequency * 1000, Len(feedback_data.feedback))

\* three responses, one of them negative, 'slow' once: 33.3, not 100.0
C9_Witness ==
    /\ Returned("identify_priority_issues", "list")
    /\ Len(feedback_data.feedback) = 3
    /\ Cardinality(NegativeRows) = 1
    /\ \E i \in DOMAIN ret.list :
           /\ ret.list[i].issue = "slow"
           /\ ret.list[i].frequency = 1
           /\ ret.list[i].percentage = 333

\* C10: identify_priority_issues on analyzed feedback returns the 'no
\* negative feedback' mapping exactly when no response is negative, and
\* otherwise a list, which is empty exactly when no problem keyword occurs
\* in the negative responses.
C10_SentinelIffNoNegative ==
    (call.op = "identify_priority_issues"
       /\ analysis_results.sentiment_analysis # None
       /\ "sentiment" \in feedback_data.columns)
        => /\ ret.kind \in {"dict", "list"}
           /\ ret.kind = "dict" <=> NegativeRows = {}
           /\ ret.kind = "dict" => ret.dict = [message |-> "No negative feedback found"]
           /\ ret.kind = "list" => (ret.list = <<>> <=> OccurringIssues = {})

\* a negative response without any problem keyword: an empty list
C10_Witness ==
    /\ Returned("identify_priority_issues", "list")
    /\ analysis_results.sentiment_analysis # None
    /\ NegativeRows # {}
    /\ ret.list = <<>>

(***************************************************************************)
(* Properties of SurveyDataProcessor.                                      *)
(***************************************************************************)
\* the cells of a rating column of the processed table
Cells(col) == {i \in DOMAIN processed_data[1].rows : TRUE}

Cell(col, i) == processed_data[1].rows[i][col]

Present(col) == {i \in Cells(col) : Cell(col, i).k = "num"}

\* the column has values and none is above limit
ObservedMaxAtMost(col, limit) ==
    /\ Present(col) # {}
    /\ \A i \in Present(col) : Cell(col, i).v <= limit

Satisfied(col) == {i \in Present(col) : Cell(col, i).v >= 4}

\* C4 as stated: satisfaction_rate is the percentage of the non-missing
\* values of the column that are >= 4.
C4_RateOverNonMissing ==
    Returned("calculate_satisfaction_metrics", "dict") =>
        \A col \in DOMAIN ret.dict :
            "satisfaction_rate" \in DOMAIN ret.dict[col] =>
                ret.dict[col].satisfaction_rate =
                    RoundHalfEven(Cardinality(Satisfied(col)) * 1000,
                                  Cardinality(Present(col)))

\* C4 amended: satisfaction_rate is the number of values >= 4 over the
\* number of rows of the processed table, missing cells included, times 100,
\* to 1 decimal.
C4_RateOverAllRows ==
    Returned("calculate_satisfaction_metrics", "dict") =>
        \A col \in DOMAIN ret.dict :
            "satisfaction_rate" \in DOMAIN ret.dict[col] =>
                ret.dict[col].satisfaction_rate =
                    RoundHalfEven(Cardinality(Satisfied(col)) * 1000,
                                  Len(processed_data[1].rows))

\* one 5 and one missing cell: 50.0, not 100.0
C4_Witness ==
    /\ Returned("calculate_satisfaction_metrics", "dict")
    /\ Cardinality(Present("ux_rating")) = 1
    /\ Cardinality(Satisfied("ux_rating")) = 1
    /\ Len(processed_data[1].rows) = 2
    /\ ret.dict["ux_rating"].satisfaction_rate = 500

\* C7: satisfaction_rate is in a column's metrics exactly when the column's
\* observed maximum is <= 5, and nps_score exactly when it is <= 10.
C7_RateAndNpsByMaximum ==
    Returned("calculate_satisfaction_metrics", "dict") =>
        \A col \in DOMAIN ret.dict :
            /\ "satisfaction_rate" \in DOMAIN ret.dict[col] <=> ObservedMaxAtMost(col, 5)
            /\ "nps_score" \in DOMAIN ret.dict[col] <=> ObservedMaxAtMost(col, 10)

\* a column with maximum 7: nps_score without satisfaction_rate
C7_Witness ==
    /\ Returned("calculate_satisfaction_metrics", "dict")
    /\ \E i \in Present("ux_rating") : Cell("ux_rating", i).v = 7
    /\ ObservedMaxAtMost("ux_rating", 7)
    /\ "nps_score" \in DOMAIN ret.dict["ux_rating"]
    /\ "satisfaction_rate" \notin DOMAIN ret.dict["ux_rating"]

\* what calculate_satisfaction_metrics yields for the rating column of a file
MetricsOfFile(f) == ColumnMetrics(Column(CoerceRatings(DropNaAll(f[1])), "ux_rating"))

HasRate(m) == "satisfaction_rate" \in DOMAIN m
HasNps(m) == "nps_score" \in DOMAIN m

\* C8 as stated: the two conditions are independent, so that each of the
\* four combinations of satisfaction_rate present or absent with nps_score
\* present or absent is produced by some column: beside any column's
\* metrics, some column agrees with it on satisfaction_rate and differs on
\* nps_score, and some column agrees on nps_score and differs on
\* satisfaction_rate.
C8_FourCombinations ==
    Returned("calculate_satisfaction_metrics", "dict") =>
        \A col \in DOMAIN ret.dict :
            /\ \E f \in Files \ {None} :
                   /\ HasRate(MetricsOfFile(f)) <=> HasRate(ret.dict[col])
                   /\ HasNps(MetricsOfFile(f)) <=> ~HasNps(ret.dict[col])
            /\ \E f \in Files \ {None} :
                   /\ HasRate(MetricsOfFile(f)) <=> ~HasRate(ret.dict[col])
                   /\ HasNps(MetricsOfFile(f)) <=> HasNps(ret.dict[col])

\* C8 amended: a column's metrics never have satisfaction_rate without
\* nps_score, and a column with neither has mean, median, count and std only.
C8_RateImpliesNps ==
    Returned("calculate_satisfaction_metrics", "dict") =>
        \A col \in DOMAIN ret.dict :
            /\ "satisfaction_rate" \in DOMAIN ret.dict[col] => "nps_score" \in DOMAIN ret.dict[col]
            /\ ~ObservedMaxAtMost(col, 10) =>
                   DOMAIN ret.dict[col] = {"mean", "median", "count", "std"}
            /\ {"mean", "median", "count", "std"} \subseteq DOMAIN ret.dict[col]

\* a column with a value above 10: the four base statistics only
C8_Witness ==
    /\ Returned("calculate_satisfaction_metrics", "dict")
    /\ \E i \in Present("ux_rating") : Cell("ux_rating", i).v > 10
    /\ DOMAIN ret.dict["ux_rating"] = {"mean", "median", "count", "std"}

(***************************************************************************)
(* Properties of analyze_sentiment.                                        *)
(***************************************************************************)
\* C11: analyze_sentiment gives every response exactly one category, and a
\* present text of polarity p 'positive' iff p > 0.1, 'negative' iff
\* p < -0.1 and 'neutral' otherwise, so at exactly 0.1 and -0.1 'neutral'.
C11_CategoryByPolarity ==
    Returned("analyze_sentiment", "dict") =>
        /\ DOMAIN feedback_data.sentiment = DOMAIN feedback_data.feedback
        /\ \A i \in DOMAIN feedback_data.feedback :
               LET fb == feedback_data.feedback[i]
                   category == feedback_data.sentiment[i]
               IN  /\ category \in Sentiments
                   /\ ~fb.na =>
                          /\ category = "positive" <=> fb.polarity > 10
                          /\ category = "negative" <=> fb.polarity < -10
                          /\ category = "neutral" <=> (fb.polarity >= -10 /\ fb.polarity <= 10)

\* polarity 0.1 and -0.1 are neutral, 0.11 is positive
C11_Witness ==
    /\ Returned("analyze_sentiment", "dict")
    /\ \E i, j, k \in DOMAIN feedback_data.feedback :
           /\ feedback_data.feedback[i].polarity = 10
           /\ feedback_data.sentiment[i] = "neutral"
           /\ feedback_data.feedback[j].polarity = -10
           /\ feedback_data.sentiment[j] = "neutral"
           /\ feedback_data.feedback[k].polarity = 11
           /\ feedback_data.sentiment[k] = "positive"

\* the responses without a text
Absent == {i \in DOMAIN feedback_data.feedback : feedback_data.feedback[i].na}

\* the present texts, in response order
RECURSIVE PresentTexts(_)
PresentTexts(fbs) ==
    IF fbs = <<>> THEN <<>>
    ELSE IF fbs[1].na THEN PresentTexts(Tail(fbs))
    ELSE <<fbs[1]>> \o PresentTexts(Tail(fbs))

\* C12: analyze_sentiment gives every absent response the category
\* 'neutral' and the polarity 0 and does not hand it to the scoring
\* function, which gets exactly the present texts; these keep their score.
C12_AbsentTextNotScored ==
    call.op = "analyze_sentiment" /\ ret.kind # "None" =>
        /\ \A i \in Absent :
               /\ feedback_data.sentiment[i] = "neutral"
               /\ feedback_data.sentiment_score[i] = 0
        /\ \A n \in DOMAIN scorer_calls : ~scorer_calls[n].na
        /\ scorer_calls = PresentTexts(feedback_data.feedback)
        /\ \A i \in DOMAIN feedback_data.feedback \ Absent :
               feedback_data.sentiment_score[i] = feedback_data.feedback[i].polarity

\* an absent response beside a scored one
C12_Witness ==
    /\ Returned("analyze_sentiment", "dict")
    /\ Absent # {}
    /\ Len(scorer_calls) = 1
    /\ Len(feedback_data.feedback) = 2
    /\ \E i \in DOMAIN feedback_data.feedback :
           feedback_data.sentiment[i] = "negative" /\ feedback_data.sentiment_score[i] = -60

(***************************************************************************)
(* Properties of analyze_by_segments and of the call order.                *)
(***************************************************************************)
\* the segment column of the processed table holds v in every row
SingleSegment(segment_column, v) ==
    /\ processed_data # None
    /\ segment_column \in Range(processed_data[1].columns)
    /\ processed_data[1].rows # <<>>
    /\ ~IsNa(v)
    /\ \A i \in DOMAIN processed_data[1].rows :
           processed_data[1].rows[i][segment_column] = v

\* C13: when the segment column holds one single value in every row,
\* analyze_by_segments returns for that value and every rating column the
\* mean, the count and the satisfaction_rate that
\* calculate_satisfaction_metrics returns for the same table, and no rate
\* where that has none.
C13_SingleSegmentIsWholeTable ==
    Returned("analyze_by_segments", "dict") =>
        \A v \in UserTypes \cup Ratings :
            SingleSegment(call.segment_column, v) =>
                LET whole == SatisfactionMetrics(processed_data[1])
                IN  /\ DOMAIN ret.dict = {v}
                    /\ DOMAIN ret.dict[v] = DOMAIN whole
                    /\ \A col \in DOMAIN whole :
                           /\ ret.dict[v][col].mean = whole[col].mean
                           /\ ret.dict[v][col].count = whole[col].count
                           /\ IF "satisfaction_rate" \in DOMAIN whole[col]
                              THEN ret.dict[v][col].satisfaction_rate
                                       = Some(whole[col].satisfaction_rate)
                              ELSE ret.dict[v][col].satisfaction_rate = None

\* two rows of one user type, one rating 5 and one missing: 50.0 in both
C13_Witness ==
    /\ Returned("analyze_by_segments", "dict")
    /\ insights.satisfaction_metrics = Some(SatisfactionMetrics(processed_data[1]))
    /\ call.segment_column = "user_type"
    /\ SingleSegment("user_type", Str(1))
    /\ Len(processed_data[1].rows) = 2
    /\ ret.dict[Str(1)]["ux_rating"].count = 1
    /\ ret.dict[Str(1)]["ux_rating"].satisfaction_rate = Some(500)
    /\ insights.satisfaction_metrics[1]["ux_rating"].satisfaction_rate = 500

\* C14: analyze_by_segments with a segment column that the processed table
\* does not have returns None and nothing else, and leaves insights, an
\* earlier 'segment_analysis' entry included, as they were.
C14_MissingColumnLeavesInsights ==
    [][(/\ call'.op = "analyze_by_segments"
        /\ processed_data # None
        /\ call'.segment_column \notin Range(processed_data[1].columns))
       => (ret' = [kind |-> "None"] /\ insights' = insights)]_vars

\* the call with the missing column came after a stored segment analysis
C14_Witness ==
    /\ Returned("analyze_by_segments", "None")
    /\ call.segment_column = "plan"
    /\ processed_data # None
    /\ insights.segment_analysis # None
    /\ insights.segment_analysis[1] # <<>>

\* C20 as stated: calculate_satisfaction_metrics, analyze_by_segments and
\* generate_executive_summary, called before clean_data has produced
\* processed_data, return a failure value, raise nothing and leave insights
\* unchanged.
C20_StepsBeforeCleanDataReturnNone ==
    (/\ call.op \in {"calculate_satisfaction_metrics", "analyze_by_segments",
                     "generate_executive_summary"}
     /\ processed_data = None)
        => (ret.kind = "None" /\ insights = NoInsights)

(***************************************************************************)
(* Properties of extract_themes and of the report.                         *)
(***************************************************************************)
\* the vocabulary keywords that occur in the loaded responses
OccurringKeywords == {w \in Range(ux_keywords) : Occurrences(feedback_data.feedback, w) > 0}

\* C15: common_keywords holds exactly the vocabulary keywords that occur at
\* least min_frequency times in all responses together, each with its raw
\* count; total_keywords_found is the number of all vocabulary-keyword
\* occurrences, whatever min_frequency is; theme_categories has no category
\* with total 0.
C15_CommonKeywordsAtThreshold ==
    Returned("extract_themes", "dict") =>
        LET fbs == feedback_data.feedback
        IN  /\ DOMAIN ret.dict.common_keywords =
                   {w \in OccurringKeywords : Occurrences(fbs, w) >= call.min_frequency}
            /\ \A w \in DOMAIN ret.dict.common_keywords :
                   ret.dict.common_keywords[w] = Occurrences(fbs, w)
            /\ ret.dict.total_keywords_found =
                   SumDict([w \in OccurringKeywords |-> Occurrences(fbs, w)])
            /\ \A c \in DOMAIN ret.dict.theme_categories :
                   ret.dict.theme_categories[c] > 0

\* a keyword exactly at the threshold is kept, one below it is dropped and
\* still counted in total_keywords_found
C15_Witness ==
    /\ Returned("extract_themes", "dict")
    /\ call.min_frequency = 2
    /\ \E kept, dropped \in OccurringKeywords :
           /\ Occurrences(feedback_data.feedback, kept) = 2
           /\ Occurrences(feedback_data.feedback, dropped) = 1
           /\ DOMAIN ret.dict.common_keywords = {kept}
           /\ ret.dict.total_keywords_found > SumDict(ret.dict.common_keywords)

\* the key_insights entries of a report that are 'most discussed theme'
ThemeFindingsOf(report) ==
    SelectSeq(report.key_insights, LAMBDA f : f.finding = "most_discussed_theme")

\* where a category comes in the iteration order of theme_categories
CategoryIndex(c) == CHOOSE i \in DOMAIN theme_categories : theme_categories[i].category = c

\* C16: a report over a theme analysis with a non-empty theme_categories has
\* exactly one 'most discussed theme' finding; it names a category with the
\* maximum count and, of the categories with that count, the first in
\* theme_categories order. With empty theme_categories there is none.
C16_TopThemeIsFirstMaximum ==
    (Returned("generate_insights_report", "dict") /\ analysis_results.theme_analysis # None) =>
        LET themes == analysis_results.theme_analysis[1].theme_categories
            found == ThemeFindingsOf(ret.dict)
        IN  IF DOMAIN themes = {}
            THEN found = <<>>
            ELSE /\ Len(found) = 1
                 /\ found[1].theme \in DOMAIN themes
                 /\ found[1].mentions = themes[found[1].theme]
                 /\ \A c \in DOMAIN themes :
                        /\ themes[c] <= found[1].mentions
                        /\ themes[c] = found[1].mentions =>
                               CategoryIndex(found[1].theme) <= CategoryIndex(c)

\* two categories share the maximum and the finding names the earlier one
C16_Witness ==
    /\ Returned("generate_insights_report", "dict")
    /\ analysis_results.theme_analysis # None
    /\ \E c, d \in DOMAIN analysis_results.theme_analysis[1].theme_categories :
           /\ c # d
           /\ analysis_results.theme_analysis[1].theme_categories[c]
                  = analysis_results.theme_analysis[1].theme_categories[d]
           /\ Len(ThemeFindingsOf(ret.dict)) = 1
           /\ ThemeFindingsOf(ret.dict)[1].theme = c
           /\ ThemeFindingsOf(ret.dict)[1].mentions
                  = analysis_results.theme_analysis[1].theme_categories[c]


\* the top entry of the stored priority issues, if there is a ranked list
HasTopIssue ==
    /\ analysis_results.priority_issues # None
    /\ analysis_results.priority_issues[1] # <<>>

TopIssue == analysis_results.priority_issues[1][1].issue

\* C17: a report has at most one recommendation: exactly one, that of its
\* bucket, when the keyword of the top priority issue is a performance, a
\* usability or a technical keyword, and none when it is in no bucket, while
\* the 'top complaint' finding is there in both cases.
C17_OneRecommendationByBucket ==
    Returned("generate_insights_report", "dict") =>
        /\ Len(ret.dict.recommendations) <= 1
        /\ ~HasTopIssue =>
               ret.dict.recommendations = <<>> /\ ~HasFinding(ret.dict, "top_user_complaint")
        /\ HasTopIssue =>
               /\ HasFinding(ret.dict, "top_user_complaint")
               /\ TopIssue \in {"slow", "loading", "laggy"} =>
                      ret.dict.recommendations =
                          <<"Investigate performance optimization opportunities">>
               /\ TopIssue \in {"confusing", "difficult", "complicated"} =>
                      ret.dict.recommendations =
                          <<"Consider UX/UI simplification and user testing">>
               /\ TopIssue \in {"broken", "error", "bug", "crash"} =>
                      ret.dict.recommendations =
                          <<"Prioritize bug fixes and technical stability improvements">>
               /\ TopIssue \notin {"slow", "loading", "laggy", "confusing", "difficult",
                                    "complicated", "broken", "error", "bug", "crash"} =>
                      ret.dict.recommendations = <<>>

\* the top complaint is 'hate': the finding without a recommendation
C17_Witness ==
    /\ Returned("generate_insights_report", "dict")
    /\ HasTopIssue
    /\ TopIssue = "hate"
    /\ HasFinding(ret.dict, "top_user_complaint")
    /\ ret.dict.recommendations = <<>>

(***************************************************************************)
(* Properties of calculate_satisfaction_metrics on missing values.         *)
(***************************************************************************)
\* C18: calculate_satisfaction_metrics never raises; for a rating column
\* without a single value, in a table with or without rows, it gives count
\* 0, undefined mean, median and std and neither satisfaction_rate nor
\* nps_score; and wherever it gives a satisfaction_rate or an nps_score the
\* table has rows, so that the divisor of both is not zero.
C18_AllMissingColumn ==
    call.op = "calculate_satisfaction_metrics" =>
        /\ ret.kind # "raise"
        /\ ret.kind = "dict" =>
               \A col \in DOMAIN ret.dict :
                   /\ Present(col) = {} =>
                          /\ ret.dict[col].count = 0
                          /\ ret.dict[col].mean = None
                          /\ ret.dict[col].median = None
                          /\ ret.dict[col].std = None
                          /\ ~HasRate(ret.dict[col])
                          /\ ~HasNps(ret.dict[col])
                   /\ (HasRate(ret.dict[col]) \/ HasNps(ret.dict[col])) =>
                          Len(processed_data[1].rows) > 0

\* two rows, both without a rating
C18_Witness ==
    /\ Returned("calculate_satisfaction_metrics", "dict")
    /\ Len(processed_data[1].rows) = 2
    /\ Present("ux_rating") = {}
    /\ ret.dict["ux_rating"].count = 0
    /\ ret.dict["ux_rating"].mean = None

(***************************************************************************)
(* The order of the responses.                                             *)
(***************************************************************************)
\* the lists that hold the responses of fbs in another order
Reorderings(fbs) ==
    {[i \in DOMAIN fbs |-> fbs[p[i]]] :
        p \in {p \in [DOMAIN fbs -> DOMAIN fbs] :
                  \A i, j \in DOMAIN fbs : p[i] = p[j] => i = j}}

\* the frame after load_feedback(fbs) and analyze_sentiment()
Analyzed(fbs) ==
    [feedback |-> fbs, sentiment |-> [i \in DOMAIN fbs |-> Classify(fbs[i])]]

\* what analyze_sentiment returns as distribution and percentages for fbs
SentimentOf(fbs) ==
    LET sentiment_dist == ValueCounts(Analyzed(fbs).sentiment)
    IN  [distribution |-> sentiment_dist,
         percentages |-> Percentages(sentiment_dist, Len(fbs))]

\* what extract_themes(min_frequency) returns for fbs
ThemesOf(fbs, min_frequency) ==
    LET common_themes == CommonThemes(Counter(AllKeywords(fbs)).count, min_frequency)
    IN  [common_keywords |-> common_themes,
         theme_categories |-> CategorizedThemes(common_themes),
         total_keywords_found |-> Len(AllKeywords(fbs))]

\* what identify_priority_issues returns for fbs with negative responses
PriorityIssuesOf(fbs) == PriorityIssues(Analyzed(fbs))

\* the distribution, the percentages and the theme analysis do not depend on
\* the order of the responses
AggregatesIgnoreOrder ==
    /\ Returned("analyze_sentiment", "dict") =>
           \A other \in Reorderings(feedback_data.feedback) :
               /\ SentimentOf(other).distribution = ret.dict.distribution
               /\ SentimentOf(other).percentages = ret.dict.percentages
    /\ Returned("extract_themes", "dict") =>
           \A other \in Reorderings(feedback_data.feedback) :
               ThemesOf(other, call.min_frequency) = ret.dict

\* C19 as stated: for every permutation of the loaded responses
\* analyze_sentiment returns the same distribution and percentages,
\* extract_themes the same result and identify_priority_issues the same
\* ranked list.
C19_AllResultsIgnoreOrder ==
    /\ AggregatesIgnoreOrder
    /\ Returned("identify_priority_issues", "list") =>
           \A other \in Reorderings(feedback_data.feedback) :
               PriorityIssuesOf(other) = ret.list

\* no other problem keyword has the frequency of entry i of the ranked list
Untied(list, i) ==
    \A w \in Range(problem_keywords) \ {list[i].issue} :
        NegativeOccurrences(w) # list[i].frequency

\* C19 amended: for every permutation of the loaded responses
\* analyze_sentiment returns the same distribution and percentages and
\* extract_themes the same result; identify_priority_issues returns a list
\* of the same length with the same frequency and percentage at every rank
\* and the same keyword at every rank whose frequency no other keyword has,
\* while keywords of equal frequency may change places.
C19_RanksIgnoreOrderUpToTies ==
    /\ AggregatesIgnoreOrder
    /\ Returned("identify_priority_issues", "list") =>
           \A other \in Reorderings(feedback_data.feedback) :
               LET ranked == PriorityIssuesOf(other)
               IN  /\ Len(ranked) = Len(ret.list)
                   /\ \A i \in DOMAIN ret.list :
                          /\ ranked[i].frequency = ret.list[i].frequency
                          /\ ranked[i].percentage = ret.list[i].percentage
                          /\ Untied(ret.list, i) => ranked[i].issue = ret.list[i].issue

\* the responses in another order give another ranked list: an untied top
\* entry stays, two keywords of frequency 1 change places
C19_Witness ==
    /\ Returned("identify_priority_issues", "list")
    /\ Len(ret.list) >= 3
    /\ Untied(ret.list, 1)
    /\ \E other \in Reorderings(feedback_data.feedback) :
           /\ PriorityIssuesOf(other) # ret.list
           /\ PriorityIssuesOf(other)[1] = ret.list[1]
           /\ PriorityIssuesOf(other)[2].issue = ret.list[3].issue

(***************************************************************************)
(* Properties of the stored priority issues.                               *)
(***************************************************************************)
\* identify_priority_issues has just returned {'message': 'No negative feedback found'}
ReturnedSentinel ==
    /\ Returned("identify_priority_issues", "dict")
    /\ ret.dict = [message |-> "No negative feedback found"]

\* C21 as stated: a report generated after identify_priority_issues returned
\* the 'no negative feedback' sentinel has no 'top complaint' finding and no
\* recommendation: no ranked list of an earlier run is reused.
C21_SentinelClearsTopComplaint ==
    [][(/\ ReturnedSentinel
        /\ call'.op = "generate_insights_report"
        /\ ret'.kind = "dict")
       => (/\ ~HasFinding(ret'.dict, "top_user_complaint")
           /\ ret'.dict.recommendations = <<>>)]_vars

\* C22 as stated: every entry returned by identify_priority_issues has a
\* frequency >= 1 and a percentage from 0 to 100.
C22_PercentageIsAShare ==
    Returned("identify_priority_issues", "list") =>
        \A i \in DOMAIN ret.list :
            /\ ret.list[i].frequency >= 1
            /\ ret.list[i].percentage >= 0
            /\ ret.list[i].percentage <= 1000

====
